---- MODULE Spec2Model ----
(***************************************************************************)
(* The PagerDuty client's Service, Integration and ServiceRule operations  *)
(* (package pagerduty, service.go): the request each operation sends, the  *)
(* envelope decoding of its response, and the list-all-pages calls         *)
(* ListServicesPaginated and ListServiceRules.                             *)
(*                                                                         *)
(* Two specifications share the module.  Spec runs the list-all-pages      *)
(* calls, two of them at a time on one client; SpecOps runs the single     *)
(* request operations.                                                     *)
(***************************************************************************)
EXTENDS Integers, Sequences, FiniteSets, TLC

---------------------------------------------------------------------------
(* Bounds *)

\* Page requests the server takes from the calls the client holds, over all
\* of them and counting each call from its start.
MaxRequests == 3

\* The calls that may be in progress on the client at once.
Calls == {1, 2}

\* The item lists a server page may carry.
PageItems == {<<>>, <<"A">>, <<"A", "B">>}

\* The (offset, limit) a server page may report.
PageMeta == {[offset |-> 0, limit |-> 1], [offset |-> 1, limit |-> 2]}

\* Resource ids and records passed to and returned by the operations.
IDs == {"PXXXXXX", "PYYYYYY"}
Services == {[id |-> i, name |-> "Web"] : i \in IDs}
Integrations == {[id |-> i, type |-> "generic_events_api_inbound_integration"] : i \in IDs}
ServiceRules == {[id |-> i, disabled |-> FALSE] : i \in IDs}

---------------------------------------------------------------------------
(* Go values *)

\* A nil pointer, and a pointer to x.
Nil == [nil |-> TRUE]
Ptr(x) == [nil |-> FALSE, to |-> x]

\* error(nil).
NoErr == [kind |-> "nil", text |-> "", arg |-> ""]

\* What %v prints for an error value.
ErrorText(e) == IF e = NoErr THEN "<nil>" ELSE e.text

\* fmt.Errorf(format, x) with one verb: the format and the printed argument.
Errorf(format, printed) == [kind |-> "errorf", text |-> format, arg |-> printed]

---------------------------------------------------------------------------
(* The HTTP client underneath (client.go): c.get, c.post, c.put, c.delete  *)
(* and c.decodeJSON.                                                       *)

\* How a request may end: a response with a 2xx status, no response at all
\* (the connection failed), or a response with another status.
Transports == {"ok", "failed", "status"}

ErrTransport == [kind |-> "transport", text |-> "Error calling the API endpoint", arg |-> ""]
ErrStatus == [kind |-> "status", text |-> "Failed call API endpoint", arg |-> ""]
ErrSyntax == [kind |-> "json", text |-> "invalid character '<' looking for beginning of value", arg |-> ""]
ErrShape == [kind |-> "json", text |-> "json: cannot unmarshal array into Go value", arg |-> ""]
ErrEOF == [kind |-> "json", text |-> "EOF", arg |-> ""]
ErrCanceled == [kind |-> "context", text |-> "context canceled", arg |-> ""]

\* Response bodies: none, text that is no JSON, a JSON array, a JSON object.
BodyEmpty == [json |-> "empty"]
BodyInvalid == [json |-> "invalid"]
BodyArray == [json |-> "array"]
BodyObject(f) == [json |-> "object", fields |-> f]

\* (resp, err) of c.get / c.post / c.put / c.delete.
do(t, body) ==
    CASE t = "ok"     -> [resp |-> Ptr([status |-> "200 OK", body |-> body]), err |-> NoErr]
      [] t = "failed" -> [resp |-> Nil, err |-> ErrTransport]
      [] t = "status" -> [resp |-> Ptr([status |-> "500 Internal Server Error", body |-> body]),
                          err |-> ErrStatus]

\* c.decodeJSON(resp, &target): the decoded object's fields, or the decoder's error.
decodeJSON(resp) ==
    LET body == resp.to.body IN
    CASE body.json = "object"  -> [target |-> body.fields, err |-> NoErr]
      [] body.json = "array"   -> [target |-> <<>>, err |-> ErrShape]
      [] body.json = "invalid" -> [target |-> <<>>, err |-> ErrSyntax]
      [] body.json = "empty"   -> [target |-> <<>>, err |-> ErrEOF]

\* A list endpoint's page as a JSON object; key is "services" or "rules".
Page(key, items, offset, limit, more) ==
    [offset |-> offset, limit |-> limit, more |-> more] @@ (key :> items)

\* c.decodeJSON(resp, &result) for a list response struct: the fields the
\* body gives are set, the others keep their zero value.
decodeList(resp, key) ==
    LET d == decodeJSON(resp)
        f == d.target
    IN  [result |-> [Offset |-> IF "offset" \in DOMAIN f THEN f["offset"] ELSE 0,
                     Limit  |-> IF "limit" \in DOMAIN f THEN f["limit"] ELSE 0,
                     More   |-> IF "more" \in DOMAIN f THEN f["more"] ELSE FALSE,
                     Items  |-> IF key \in DOMAIN f THEN f[key] ELSE <<>>],
         err |-> d.err]

\* query.Values(o) and v.Encode(): the options here are structs, which always
\* encode.
ListOptions == {[Query |-> ""], [Query |-> "web"]}
queryValues(o) ==
    [encoded |-> IF o.Query = "" THEN <<>> ELSE <<"query=", o.Query>>, err |-> NoErr]

---------------------------------------------------------------------------
(* Envelope decoding: getServiceRuleFromResponse, getServiceFromResponse,  *)
(* getIntegrationFromResponse.  Each yields what the function returns or   *)
(* that it panicked, and what it logged.                                   *)

Returned(val, resp, err) == [val |-> val, resp |-> resp, err |-> err, panic |-> FALSE, log |-> Nil]
Panicked == [val |-> Nil, resp |-> Nil, err |-> NoErr, panic |-> TRUE, log |-> Nil]

DecodeFormat == "Could not decode JSON response: %v"
MissingFormat == "JSON response does not have %s field"

\* The function with a zero ServiceRule returned for a missing root key.
getServiceRuleFromResponseZero(resp, err) ==
    IF err # NoErr THEN Returned(Nil, Nil, err)
    ELSE LET d == decodeJSON(resp) IN
         IF d.err # NoErr
         THEN Returned(Nil, Nil, Errorf(DecodeFormat, ErrorText(d.err)))
         ELSE IF "rule" \notin DOMAIN d.target
              THEN Returned(Ptr([id |-> "", disabled |-> FALSE]), resp, NoErr)
              ELSE Returned(Ptr(d.target["rule"]), resp, NoErr)

getServiceRuleFromResponse(resp, err) ==
    IF err # NoErr THEN Returned(Nil, Nil, err)
    ELSE LET d == decodeJSON(resp) IN
         IF d.err # NoErr
         THEN Returned(Nil, Nil, Errorf(DecodeFormat, ErrorText(d.err)))
         ELSE IF "rule" \notin DOMAIN d.target
              THEN Returned(Nil, Nil, Errorf(MissingFormat, "rule"))
              ELSE Returned(Ptr(d.target["rule"]), resp, NoErr)

\* With an error the function first reads resp.Body and resp.Status for its
\* log line: a nil resp is a nil pointer dereference.
getServiceFromResponse(resp, err) ==
    IF err # NoErr
    THEN IF resp = Nil
         THEN Panicked
         ELSE [Returned(Nil, Nil, err) EXCEPT
                 !.log = Ptr([status |-> resp.to.status, body |-> resp.to.body, error |-> err])]
    ELSE LET d == decodeJSON(resp) IN
         IF d.err # NoErr
         THEN Returned(Nil, Nil, Errorf(DecodeFormat, ErrorText(d.err)))
         ELSE IF "service" \notin DOMAIN d.target
              THEN Returned(Nil, Nil, Errorf(MissingFormat, "service"))
              ELSE Returned(Ptr(d.target["service"]), Nil, NoErr)

\* The decode failure is formatted from err, which is nil on this path, not
\* from dErr.
getIntegrationFromResponse(resp, err) ==
    IF err # NoErr THEN Returned(Nil, Nil, err)
    ELSE LET d == decodeJSON(resp) IN
         IF d.err # NoErr
         THEN Returned(Nil, Nil, Errorf(DecodeFormat, ErrorText(err)))
         ELSE IF "integration" \notin DOMAIN d.target
              THEN Returned(Nil, Nil, Errorf(MissingFormat, "integration"))
              ELSE Returned(Ptr(d.target["integration"]), Nil, NoErr)

---------------------------------------------------------------------------
(* The page handlers and returns of the list-all-pages calls *)

\* APIListObject{More, Offset, Limit}.
APIListObject(more, offset, limit) == [More |-> more, Offset |-> offset, Limit |-> limit]

\* The closure with a page's items appended only where services does not
\* hold them yet.
servicesResponseHandlerDedup(services, response) ==
    LET d == decodeList(response, "services")
        new == SelectSeq(d.result.Items,
                         LAMBDA x : \A i \in 1..Len(services) : services[i] # x)
    IN  IF d.err # NoErr
        THEN [acc |-> services, page |-> APIListObject(FALSE, 0, 0), err |-> d.err]
        ELSE [acc |-> services \o new,
              page |-> APIListObject(d.result.More, d.result.Offset, d.result.Limit),
              err |-> NoErr]

\* The closure of ListServicesPaginated: (services after the page, page
\* details, error).
servicesResponseHandler(services, response) ==
    LET d == decodeList(response, "services") IN
    IF d.err # NoErr
    THEN [acc |-> services, page |-> APIListObject(FALSE, 0, 0), err |-> d.err]
    ELSE [acc |-> services \o d.result.Items,
          page |-> APIListObject(d.result.More, d.result.Offset, d.result.Limit),
          err |-> NoErr]

\* The closure with the page's offset left out of the page details.
rulesResponseHandlerNoOffset(rules, response) ==
    LET d == decodeList(response, "rules") IN
    IF d.err # NoErr
    THEN [acc |-> rules, page |-> APIListObject(FALSE, 0, 0), err |-> d.err]
    ELSE [acc |-> rules \o d.result.Items,
          page |-> APIListObject(d.result.More, 0, d.result.Limit),
          err |-> NoErr]

\* The closure of ListServiceRules.
rulesResponseHandler(rules, response) ==
    LET d == decodeList(response, "rules") IN
    IF d.err # NoErr
    THEN [acc |-> rules, page |-> APIListObject(FALSE, 0, 0), err |-> d.err]
    ELSE [acc |-> rules \o d.result.Items,
          page |-> APIListObject(d.result.More, d.result.Offset, d.result.Limit),
          err |-> NoErr]

\* services kept from the call before.
newServicesReused(old) == old

\* var services []Service: a fresh, nil slice for every call.  (A nil slice
\* and an empty one are both the empty sequence.)
newServices(old) == <<>>

\* rules := make([]*ServiceRule, 0).
newRules(old) == <<>>

\* The return handing over services whatever err is.
servicesReturnPartial(services, err) == [val |-> services, err |-> err]

\* What ListServicesPaginated returns once pagedGet has returned err.
servicesReturn(services, err) ==
    IF err # NoErr THEN [val |-> <<>>, err |-> err]
    ELSE [val |-> services, err |-> NoErr]

\* What ListServiceRules returns once pagedGet has returned err.
rulesReturn(rules, err) ==
    IF err # NoErr THEN [val |-> Nil, err |-> err]
    ELSE [val |-> Ptr([Offset |-> 0, Limit |-> 0, More |-> FALSE, Rules |-> rules]),
          err |-> NoErr]

\* The context each call hands to pagedGet: ListServicesPaginated its
\* caller's ctx, ListServiceRules context.TODO().
servicesContext == "ctx"
rulesContext == "TODO"

---------------------------------------------------------------------------
(* State *)

VARIABLES
    \* The single request operations: the last call made (its name and
    \* inputs), the request it sent, what it returned, whether it panicked,
    \* and what it logged.
    call, sent, ret, panicked, logged,
    \* The list-all-pages calls, per call c:
    pc,          \* "idle", "running" (inside pagedGet) or "returned"
    fn,          \* the function called
    context,     \* the context pagedGet was handed
    acc,         \* the closure's services / rules
    nextOffset,  \* pagedGet's nextOffset
    stillMore,   \* pagedGet's stillMore
    out,         \* what the call returned
    \* The world around the calls, per call c:
    cancelled,   \* the caller has cancelled its context
    nreq,        \* the page requests the server has received
    lastReq,     \* the offset of the last of them
    lastPage,    \* how the last of them ended, and the page's metadata
    served       \* the items of the pages served, in the order served

opVars == <<call, sent, ret, panicked, logged>>
callVars == <<pc, fn, context, acc, nextOffset, stillMore, out>>
worldVars == <<cancelled, nreq, lastReq, lastPage, served>>
vars == <<opVars, callVars, worldVars>>

NoCall == [name |-> "none"]
NoRequest == [method |-> "none"]
NoReturn == [none |-> TRUE]

\* The bodies a server may answer a resource request with.
ResourceBodies(root, recs) ==
    {BodyEmpty, BodyInvalid, BodyArray, BodyObject(<<>>)}
        \cup {BodyObject(root :> r) : r \in recs}
        \cup {BodyObject("error" :> r) : r \in recs}

Request(method, path, payload) == [method |-> method, path |-> path, payload |-> payload]
NoPayload == [none |-> TRUE]
NoPage == [ok |-> FALSE, failure |-> "none"]

\* The bodies a server may answer a list request with.
ListBodies(key) ==
    {BodyInvalid}
        \cup {BodyObject(Page(key, items, p.offset, p.limit, m)) :
                items \in PageItems, p \in PageMeta, m \in BOOLEAN}

\* The common shape of an operation: it sends req, the transport ends as t
\* with body b, and `out` is what the response function made of it.
Finish(req, outcome, results) ==
    /\ sent' = req
    /\ panicked' = outcome.panic
    /\ logged' = outcome.log
    /\ ret' = IF outcome.panic THEN NoReturn
              ELSE [k \in results |-> outcome[k]]
    /\ UNCHANGED <<callVars, worldVars>>

Init ==
    /\ call = NoCall
    /\ sent = NoRequest
    /\ ret = NoReturn
    /\ panicked = FALSE
    /\ logged = Nil
    /\ pc = [c \in Calls |-> "idle"]
    /\ fn = [c \in Calls |-> "none"]
    /\ context = [c \in Calls |-> "none"]
    /\ acc = [c \in Calls |-> <<>>]
    /\ nextOffset = [c \in Calls |-> 0]
    /\ stillMore = [c \in Calls |-> FALSE]
    /\ out = [c \in Calls |-> NoReturn]
    /\ cancelled = [c \in Calls |-> FALSE]
    /\ nreq = [c \in Calls |-> 0]
    /\ lastReq = [c \in Calls |-> 0]
    /\ lastPage = [c \in Calls |-> NoPage]
    /\ served = [c \in Calls |-> <<>>]

GetService ==
    \E id \in IDs, t \in Transports, b \in ResourceBodies("service", Services) :
        LET r == do(t, b) IN
        /\ call' = [name |-> "GetService", arg |-> id, transport |-> t, body |-> b]
        /\ Finish(Request("GET", <<"/services/", id>>, NoPayload),
               getServiceFromResponse(r.resp, r.err), {"val", "err"})

\* data := make(map[string]T); data[root] = record.
Envelope(root, record) == root :> record

CreateService ==
    \E s \in Services, t \in Transports, b \in ResourceBodies("service", Services) :
        LET r == do(t, b) IN
        /\ call' = [name |-> "CreateService", arg |-> s, transport |-> t, body |-> b]
        /\ Finish(Request("POST", <<"/services">>, Envelope("service", s)),
               getServiceFromResponse(r.resp, r.err), {"val", "err"})

\* The body is a struct whose one field, the embedded Service, is tagged
\* "service": it encodes as the object {"service": s}.
UpdateService ==
    \E s \in Services, t \in Transports, b \in ResourceBodies("service", Services) :
        LET r == do(t, b) IN
        /\ call' = [name |-> "UpdateService", arg |-> s, transport |-> t, body |-> b]
        /\ Finish(Request("PUT", <<"/services/", s.id>>, [service |-> s]),
               getServiceFromResponse(r.resp, r.err), {"val", "err"})

DeleteService ==
    \E id \in IDs, t \in Transports :
        LET r == do(t, BodyEmpty) IN
        /\ call' = [name |-> "DeleteService", arg |-> id, transport |-> t, body |-> BodyEmpty]
        /\ Finish(Request("DELETE", <<"/services/", id>>, NoPayload),
               Returned(Nil, Nil, r.err), {"err"})

CreateIntegration ==
    \E id \in IDs, i \in Integrations, t \in Transports,
       b \in ResourceBodies("integration", Integrations) :
        LET r == do(t, b) IN
        /\ call' = [name |-> "CreateIntegration", arg |-> i, transport |-> t, body |-> b]
        /\ Finish(Request("POST", <<"/services/", id, "/integrations">>, Envelope("integration", i)),
               getIntegrationFromResponse(r.resp, r.err), {"val", "err"})

GetIntegration ==
    \E serviceID \in IDs, integrationID \in IDs, t \in Transports,
       b \in ResourceBodies("integration", Integrations) :
        LET r == do(t, b) IN
        /\ call' = [name |-> "GetIntegration", arg |-> integrationID, transport |-> t, body |-> b]
        /\ Finish(Request("GET", <<"/services/", serviceID, "/integrations/", integrationID>>, NoPayload),
               getIntegrationFromResponse(r.resp, r.err), {"val", "err"})

\* The record itself is the payload: no envelope is built around it.
UpdateIntegration ==
    \E serviceID \in IDs, i \in Integrations, t \in Transports,
       b \in ResourceBodies("integration", Integrations) :
        LET r == do(t, b) IN
        /\ call' = [name |-> "UpdateIntegration", arg |-> i, transport |-> t, body |-> b]
        /\ Finish(Request("PUT", <<"/services/", serviceID, "/integrations/", i.id>>, i),
               getIntegrationFromResponse(r.resp, r.err), {"val", "err"})

DeleteIntegration ==
    \E serviceID \in IDs, integrationID \in IDs, t \in Transports :
        LET r == do(t, BodyEmpty) IN
        /\ call' = [name |-> "DeleteIntegration", arg |-> integrationID, transport |-> t, body |-> BodyEmpty]
        /\ Finish(Request("DELETE", <<"/services/", serviceID, "/integrations/", integrationID>>, NoPayload),
               Returned(Nil, Nil, r.err), {"err"})

GetServiceRule ==
    \E serviceID \in IDs, ruleID \in IDs, t \in Transports,
       b \in ResourceBodies("rule", ServiceRules) :
        LET r == do(t, b) IN
        /\ call' = [name |-> "GetServiceRule", arg |-> ruleID, transport |-> t, body |-> b]
        /\ Finish(Request("GET", <<"/services/", serviceID, "/rules/", ruleID>>, NoPayload),
               getServiceRuleFromResponse(r.resp, r.err), {"val", "resp", "err"})

DeleteServiceRule ==
    \E serviceID \in IDs, ruleID \in IDs, t \in Transports :
        LET r == do(t, BodyEmpty) IN
        /\ call' = [name |-> "DeleteServiceRule", arg |-> ruleID, transport |-> t, body |-> BodyEmpty]
        /\ Finish(Request("DELETE", <<"/services/", serviceID, "/rules/", ruleID>>, NoPayload),
               Returned(Nil, Nil, r.err), {"err"})

CreateServiceRule ==
    \E serviceID \in IDs, rule \in ServiceRules, t \in Transports,
       b \in ResourceBodies("rule", ServiceRules) :
        LET r == do(t, b) IN
        /\ call' = [name |-> "CreateServiceRule", arg |-> rule, transport |-> t, body |-> b]
        /\ Finish(Request("POST", <<"/services/", serviceID, "/rules/">>, Envelope("rule", rule)),
               getServiceRuleFromResponse(r.resp, r.err), {"val", "resp", "err"})

UpdateServiceRule ==
    \E serviceID \in IDs, ruleID \in IDs, rule \in ServiceRules, t \in Transports,
       b \in ResourceBodies("rule", ServiceRules) :
        LET r == do(t, b) IN
        /\ call' = [name |-> "UpdateServiceRule", arg |-> rule, transport |-> t, body |-> b]
        /\ Finish(Request("PUT", <<"/services/", serviceID, "/rules/", ruleID>>, Envelope("rule", rule)),
               getServiceRuleFromResponse(r.resp, r.err), {"val", "resp", "err"})

\* The response is decoded into result, and &result is returned together
\* with whatever decodeJSON returned.
ListServices ==
    \E o \in ListOptions, t \in Transports, b \in ListBodies("services") :
        LET v == queryValues(o)
            r == do(t, b)
            d == decodeList(r.resp, "services")
        IN  /\ call' = [name |-> "ListServices", arg |-> o, transport |-> t, body |-> b]
            /\ Finish(IF v.err # NoErr THEN NoRequest
                      ELSE Request("GET", <<"/services?">> \o v.encoded, NoPayload),
                      IF v.err # NoErr THEN Returned(Nil, Nil, v.err)
                      ELSE IF r.err # NoErr THEN Returned(Nil, Nil, r.err)
                      ELSE Returned(Ptr([Offset |-> d.result.Offset, Limit |-> d.result.Limit,
                                         More |-> d.result.More, Services |-> d.result.Items]),
                                    Nil, d.err),
                      {"val", "err"})

NextOps ==
    \/ ListServices
    \/ GetService
    \/ CreateService
    \/ UpdateService
    \/ DeleteService
    \/ CreateIntegration
    \/ GetIntegration
    \/ UpdateIntegration
    \/ DeleteIntegration
    \/ GetServiceRule
    \/ DeleteServiceRule
    \/ CreateServiceRule
    \/ UpdateServiceRule

SpecOps == Init /\ [][NextOps]_vars

---------------------------------------------------------------------------
(* The list-all-pages calls *)

\* A call enters pagedGet: for stillMore, nextOffset = true, 0; ...
Enter(c, name, ctx, fresh) ==
    /\ pc[c] \in {"idle", "returned"}
    /\ pc' = [pc EXCEPT ![c] = "running"]
    /\ fn' = [fn EXCEPT ![c] = name]
    /\ context' = [context EXCEPT ![c] = ctx]
    /\ acc' = [acc EXCEPT ![c] = fresh]
    /\ nextOffset' = [nextOffset EXCEPT ![c] = 0]
    /\ stillMore' = [stillMore EXCEPT ![c] = TRUE]
    /\ out' = [out EXCEPT ![c] = NoReturn]
    /\ cancelled' = [cancelled EXCEPT ![c] = FALSE]
    /\ nreq' = [nreq EXCEPT ![c] = 0]
    /\ lastReq' = [lastReq EXCEPT ![c] = 0]
    /\ lastPage' = [lastPage EXCEPT ![c] = NoPage]
    /\ served' = [served EXCEPT ![c] = <<>>]
    /\ UNCHANGED opVars

ListServicesPaginated(c) ==
    /\ \E o \in ListOptions : queryValues(o).err = NoErr
    /\ Enter(c, "ListServicesPaginated", servicesContext, newServices(acc[c]))

ListServiceRules(c) ==
    /\ Enter(c, "ListServiceRules", rulesContext, newRules(acc[c]))

\* The caller of call c cancels its context while the call is running.
Cancel(c) ==
    /\ pc[c] = "running"
    /\ ~cancelled[c]
    /\ cancelled' = [cancelled EXCEPT ![c] = TRUE]
    /\ UNCHANGED <<opVars, callVars, nreq, lastReq, lastPage, served>>

\* ctx.Err() != nil for the context pagedGet holds.
ContextDone(c) == context[c] = "ctx" /\ cancelled[c]

handler(c, response) ==
    IF fn[c] = "ListServicesPaginated"
    THEN servicesResponseHandler(acc[c], response)
    ELSE rulesResponseHandler(acc[c], response)

Return(c, accNow, err) ==
    IF fn[c] = "ListServicesPaginated"
    THEN servicesReturn(accNow, err)
    ELSE rulesReturn(accNow, err)

ItemsKey(c) == IF fn[c] = "ListServicesPaginated" THEN "services" ELSE "rules"

\* pagedGet finds its context done at the top of an iteration: it returns
\* the context's error without a request.
pagedGetCancelled(c) ==
    /\ pc[c] = "running"
    /\ ContextDone(c)
    /\ pc' = [pc EXCEPT ![c] = "returned"]
    /\ out' = [out EXCEPT ![c] = Return(c, acc[c], ErrCanceled)]
    /\ UNCHANGED <<opVars, fn, context, acc, nextOffset, stillMore, worldVars>>

RECURSIVE Sum(_, _)
Sum(f, S) == IF S = {} THEN 0 ELSE LET x == CHOOSE y \in S : TRUE IN f[x] + Sum(f, S \ {x})
Requests == Sum(nreq, Calls)

\* One iteration of pagedGet: the request at nextOffset, the handler on its
\* response, the next offset and stillMore from the page details, and the
\* return when the request or the handler failed or no page is left.
pagedGetPage(c) ==
    /\ pc[c] = "running"
    /\ ~ContextDone(c)
    /\ stillMore[c]
    /\ Requests < MaxRequests
    /\ \E t \in Transports, b \in ListBodies(ItemsKey(c)) :
        LET r == do(t, b)
            h == handler(c, r.resp)
            err == IF r.err # NoErr THEN r.err ELSE h.err
            more == h.page.More
        IN  /\ nreq' = [nreq EXCEPT ![c] = @ + 1]
            /\ lastReq' = [lastReq EXCEPT ![c] = nextOffset[c]]
            /\ lastPage' = [lastPage EXCEPT ![c] =
                    IF r.err # NoErr THEN [ok |-> FALSE, failure |-> "transport"]
                    ELSE IF b.json # "object" THEN [ok |-> FALSE, failure |-> "decode"]
                    ELSE [ok |-> TRUE, offset |-> b.fields["offset"],
                          limit |-> b.fields["limit"], more |-> b.fields["more"]]]
            /\ served' = [served EXCEPT ![c] =
                    IF r.err = NoErr /\ b.json = "object"
                    THEN @ \o b.fields[ItemsKey(c)] ELSE @]
            /\ IF r.err # NoErr
               THEN UNCHANGED <<acc, nextOffset, stillMore>>
               ELSE /\ acc' = [acc EXCEPT ![c] = h.acc]
                    /\ IF h.err # NoErr
                       THEN UNCHANGED <<nextOffset, stillMore>>
                       ELSE /\ nextOffset' = [nextOffset EXCEPT ![c] = h.page.Offset + h.page.Limit]
                            /\ stillMore' = [stillMore EXCEPT ![c] = more]
            /\ IF err # NoErr \/ ~more
               THEN /\ pc' = [pc EXCEPT ![c] = "returned"]
                    /\ out' = [out EXCEPT ![c] =
                                 Return(c, IF r.err # NoErr THEN acc[c] ELSE h.acc, err)]
               ELSE UNCHANGED <<pc, out>>
            /\ UNCHANGED <<opVars, fn, context, cancelled>>

Next ==
    \E c \in Calls :
        \/ ListServicesPaginated(c)
        \/ ListServiceRules(c)
        \/ Cancel(c)
        \/ pagedGetCancelled(c)
        \/ pagedGetPage(c)

Spec == Init /\ [][Next]_vars

---------------------------------------------------------------------------
(* Properties of the list-all-pages calls (Spec) *)

\* The item sequence a returned call handed to its caller.
ReturnedItems(c) ==
    IF fn[c] = "ListServicesPaginated" THEN out[c].val ELSE out[c].val.to.Rules

ReturnedOK(c) == pc[c] = "returned" /\ out[c].err = NoErr

\* C1: a call whose pages all arrived and decoded returns exactly the
\* concatenation of the pages' item lists in the order the pages were served,
\* nothing dropped, reordered or deduplicated.
C1_Concatenation ==
    \A c \in Calls : ReturnedOK(c) => ReturnedItems(c) = served[c]

\* Two pages, the first <<A>> and the second <<A, B>>: A is returned twice.
C1_Witness ==
    \E c \in Calls :
        ReturnedOK(c) /\ nreq[c] = 2 /\ ReturnedItems(c) = <<"A", "A", "B">>

\* C2: every step takes at most one page request from a call; each request
\* after a call's first follows a page that reported more=true and is at that
\* page's offset plus its limit; and a page that reports more=false ends the
\* call, which returns the accumulated sequence without error.
C2_RequestPerPage ==
    /\ [](\A c \in Calls :
            (nreq[c] > 0 /\ lastPage[c].ok /\ ~lastPage[c].more)
                => /\ ReturnedOK(c)
                   /\ ReturnedItems(c) = acc[c])
    /\ [][\A c \in Calls :
            /\ nreq'[c] \in {0, nreq[c], nreq[c] + 1}
            /\ (nreq[c] > 0 /\ nreq'[c] = nreq[c] + 1)
                  => /\ lastPage[c].ok
                     /\ lastPage[c].more
                     /\ lastReq'[c] = lastPage[c].offset + lastPage[c].limit]_vars

\* Three pages, more=true, more=true, more=false, the third asked for at the
\* second's offset 1 plus its limit 2.
C2_Witness ==
    \E c \in Calls :
        ReturnedOK(c) /\ nreq[c] = 3 /\ lastReq[c] = 3 /\ ~lastPage[c].more

\* C3: once a page request of a call has failed, in transport or in
\* decoding, the call has returned (no further request follows) with an
\* error and without an item list.
C3_FailFast ==
    \A c \in Calls :
        (nreq[c] > 0 /\ ~lastPage[c].ok)
            => /\ pc[c] = "returned"
               /\ out[c].err # NoErr
               /\ out[c].val = IF fn[c] = "ListServicesPaginated" THEN <<>> ELSE Nil

\* A second page that does not decode, after a first page with items.
C3_Witness ==
    \E c \in Calls :
        /\ fn[c] = "ListServicesPaginated"
        /\ nreq[c] = 2
        /\ ~lastPage[c].ok /\ lastPage[c].failure = "decode"
        /\ served[c] = <<"A", "B">>
        /\ pc[c] = "returned"

\* C9: once the caller of a running call has cancelled its context after a
\* page, the call sends no further page request.
C9_NoRequestAfterCancel ==
    [][\A c \in Calls :
        (pc[c] = "running" /\ nreq[c] > 0 /\ cancelled[c]) => nreq'[c] = nreq[c]]_vars

\* C10: whatever the other call does, a call's accumulator holds the items of
\* the pages served to this call since it started and no others, and that
\* is what it returns.
C10_OwnAccumulator ==
    \A c \in Calls :
        pc[c] # "idle"
            => /\ acc[c] = served[c]
               /\ ReturnedOK(c) => ReturnedItems(c) = acc[c]

\* Both calls in progress, each with one page served, the pages different.
C10_Witness ==
    /\ pc[1] = "running" /\ pc[2] = "running"
    /\ served[1] = <<"A">> /\ served[2] = <<"A", "B">>
    /\ acc[1] = <<"A">> /\ acc[2] = <<"A", "B">>

---------------------------------------------------------------------------
(* Properties of the single request operations (SpecOps) *)

\* The root field name of the resource an operation is about.
RootOf(name) ==
    CASE name \in {"GetService", "CreateService", "UpdateService"} -> "service"
      [] name \in {"GetIntegration", "CreateIntegration", "UpdateIntegration"} -> "integration"
      [] name \in {"GetServiceRule", "CreateServiceRule", "UpdateServiceRule"} -> "rule"

WriteOps == {"CreateService", "UpdateService", "CreateIntegration", "UpdateIntegration",
             "CreateServiceRule", "UpdateServiceRule"}
ResourceOps == WriteOps \cup {"GetService", "GetIntegration", "GetServiceRule"}

\* C4: every create and update sends the object whose one key is the
\* resource's root field name and whose value is the record passed in.
C4_Envelope ==
    call.name \in WriteOps
        => /\ DOMAIN sent.payload = {RootOf(call.name)}
           /\ sent.payload[RootOf(call.name)] = call.arg

\* C5: when the HTTP call fails, with or without a response, the operation
\* returns the HTTP call's error as it is and does not panic.
C5_TransportError ==
    (call.name \in ResourceOps /\ call.transport # "ok")
        => /\ ~panicked
           /\ ret.err = do(call.transport, call.body).err

\* C6: when the body is no JSON object, the operation's error is the decode
\* error formatted around the decoder's own error, never around nil.
C6_DecodeCause ==
    (call.name \in ResourceOps /\ call.transport = "ok" /\ call.body.json # "object")
        => /\ ret.err.kind = "errorf" /\ ret.err.text = DecodeFormat
           /\ ret.err.arg = ErrorText(decodeJSON(do("ok", call.body).resp).err)
           /\ ret.err.arg # "<nil>"

\* C7: when the body is a JSON object, an operation returns no value and the
\* missing-field error naming the root key if the key is absent, and the
\* value under the key with no error if it is present.
C7_RootKey ==
    (call.name \in ResourceOps /\ call.transport = "ok" /\ call.body.json = "object")
        => LET root == RootOf(call.name) IN
           IF root \in DOMAIN call.body.fields
           THEN ret.val = Ptr(call.body.fields[root]) /\ ret.err = NoErr
           ELSE ret.val = Nil /\ ret.err = Errorf(MissingFormat, root)

\* GetServiceRule answered with {"error": ...}: no rule, an error naming "rule".
C7_Witness ==
    /\ call.name = "GetServiceRule"
    /\ call.transport = "ok"
    /\ call.body.json = "object"
    /\ "rule" \notin DOMAIN call.body.fields
    /\ "error" \in DOMAIN call.body.fields
    /\ ret.val = Nil
    /\ ret.err.arg = "rule"

\* C8: every operation that returns a value and an error returns either a
\* value and no error or an error and no value; ListServices too, when the
\* body does not decode.
C8_ValueOrError ==
    (call.name \in ResourceOps \cup {"ListServices"} /\ ~panicked)
        => \/ ret.val # Nil /\ ret.err = NoErr
           \/ ret.val = Nil /\ ret.err # NoErr
====
